---------------------------- MODULE Spec2Model ----------------------------
(***************************************************************************)
(* A model of play_frequency.py: command-line parsing (__main__), the two  *)
(* play routines (play_frequency, play_multiple_frequencies), the          *)
(* visualization thread (visualize_waveform) and the audio device the      *)
(* routines hand the buffer to.                                            *)
(*                                                                         *)
(* Numbers.  Python floats are modelled as exact rationals <<n, d>> in     *)
(* lowest terms with d > 0; <<0, 0>> stands for NaN.  Floating-point       *)
(* rounding is not modelled.                                               *)
(*                                                                         *)
(* Arrays.  Every numpy array of the program is an element-wise function   *)
(* of the time array t = np.linspace(0, duration, num, endpoint=False).    *)
(* An array is therefore kept in closed form as a record                   *)
(*     [num |-> N, step |-> s, coef |-> c]                                 *)
(* that stands for the N samples                                           *)
(*     sample[i] = SUM over f in DOMAIN c of c[f] * sin(2*pi*f*(i*s)),     *)
(* i in 0 .. N-1.  sin is left uninterpreted.  This keeps a buffer of      *)
(* 44100 * duration samples a small value.                                 *)
(*                                                                         *)
(* Strings.  A command-line argument is a sequence of one-character        *)
(* strings.  A printed line is a tuple of its literal pieces and the       *)
(* values formatted into it.                                               *)
(***************************************************************************)
EXTENDS Integers, Sequences, FiniteSets, TLC

\* ------------------------------------------------------------- bounds
\* Longest first command-line argument (frequency or frequency list).
MaxFreqArgLen == 3
\* Longest second command-line argument (duration).
MaxDurArgLen == 2
\* Direct calls: frequencies 1 .. MaxFreq Hz.
MaxFreq == 2
\* Direct calls: longest frequency list.
MaxFreqs == 2
\* Direct calls: sample rates 1 .. MaxRate Hz.
MaxRate == 3
\* Direct calls: durations n / DurDen seconds, n in -1 .. MaxDurNum.
MaxDurNum == 3
DurDen == 2
\* How many leading samples of a buffer a property inspects one by one.
MaxProbe == 4

\* ------------------------------------------------- program constants
DefaultFrequency == 440
DefaultDuration == 2
DefaultSampleRate == 44100
\* amplitude=0.3
DefaultAmplitudeNum == 3
DefaultAmplitudeDen == 10
\* wave *= 10
SingleToneScale == 10
\* zoom view: min(0.05, duration) = min(1/ZoomInv, duration)
ZoomInv == 20

\* ---------------------------------------------------------- rationals
RECURSIVE Gcd(_, _)
Gcd(a, b) == IF b = 0 THEN a ELSE Gcd(b, a % b)

Abs(n) == IF n < 0 THEN -n ELSE n

NaN == <<0, 0>>

IsNaN(q) == q[2] = 0

\* The rational n/d in lowest terms with a positive denominator.
Rat(n, d) ==
    IF d = 0 THEN NaN
    ELSE LET g == Gcd(Abs(n), Abs(d))
             s == IF d < 0 THEN -1 ELSE 1
         IN  <<(s * n) \div g, (s * d) \div g>>

RatInt(n) == <<n, 1>>

RatAdd(p, q) ==
    IF IsNaN(p) \/ IsNaN(q) THEN NaN
    ELSE Rat(p[1] * q[2] + q[1] * p[2], p[2] * q[2])

RatMul(p, q) ==
    IF IsNaN(p) \/ IsNaN(q) THEN NaN ELSE Rat(p[1] * q[1], p[2] * q[2])

\* Division as numpy does it: x / 0 is not a number (a warning, no exception).
RatDiv(p, q) ==
    IF IsNaN(p) \/ IsNaN(q) \/ q[1] = 0 THEN NaN
    ELSE Rat(p[1] * q[2], p[2] * q[1])

RatLess(p, q) == p[1] * q[2] < q[1] * p[2]

RatMin(p, q) == IF RatLess(q, p) THEN q ELSE p

\* int(x): truncation toward zero.
IntTrunc(q) == IF q[1] >= 0 THEN q[1] \div q[2] ELSE -((-q[1]) \div q[2])

\* ------------------------------------------------------------- arrays
EmptyCoef == [f \in {} |-> NaN]

\* No array yet (the variable is unbound).
NoWave == [num |-> -1, step |-> NaN, coef |-> EmptyCoef]

\* np.linspace(0, stop, num, endpoint=False): num samples i * (stop / num).
\* The caller has checked num >= 0 (a negative num raises ValueError).
Linspace(stop, num) ==
    [num |-> num, step |-> IF num > 0 THEN RatDiv(stop, RatInt(num)) ELSE NaN]

\* np.zeros_like(t)
ZerosLike(t) == [num |-> t.num, step |-> t.step, coef |-> EmptyCoef]

\* np.sin(2 * np.pi * freq * t)
SinOf(freq, t) ==
    [num |-> t.num, step |-> t.step, coef |-> [f \in {freq} |-> RatInt(1)]]

\* wave + other, element by element.
WaveAdd(w, v) ==
    [num |-> w.num, step |-> w.step,
     coef |-> [f \in (DOMAIN w.coef) \cup (DOMAIN v.coef) |->
                  IF f \in DOMAIN w.coef
                  THEN IF f \in DOMAIN v.coef
                       THEN RatAdd(w.coef[f], v.coef[f])
                       ELSE w.coef[f]
                  ELSE v.coef[f]]]

\* q * wave, element by element.
WaveScale(w, q) ==
    [num |-> w.num, step |-> w.step,
     coef |-> [f \in DOMAIN w.coef |-> RatMul(w.coef[f], q)]]

\* wave / n, element by element.
WaveDiv(w, n) ==
    [num |-> w.num, step |-> w.step,
     coef |-> [f \in DOMAIN w.coef |-> RatDiv(w.coef[f], RatInt(n))]]

\* The time sample i of an array stands at.
TimeAt(w, i) == RatMul(RatInt(i), w.step)

\* wave[:k]: the number of samples a slice keeps.
SliceLen(w, k) ==
    IF k >= 0 THEN (IF k < w.num THEN k ELSE w.num)
    ELSE (IF w.num + k > 0 THEN w.num + k ELSE 0)

\* ------------------------------------------------------------ strings
Digits == {"0", "1", "2", "3", "4", "5", "6", "7", "8", "9"}

Whitespace == {" "}

DigitVal(c) ==
    CASE c = "0" -> 0 [] c = "1" -> 1 [] c = "2" -> 2 [] c = "3" -> 3
      [] c = "4" -> 4 [] c = "5" -> 5 [] c = "6" -> 6 [] c = "7" -> 7
      [] c = "8" -> 8 [] c = "9" -> 9

RECURSIVE LStrip(_)
LStrip(s) ==
    IF s # <<>> /\ Head(s) \in Whitespace THEN LStrip(Tail(s)) ELSE s

RECURSIVE RStrip(_)
RStrip(s) ==
    IF s # <<>> /\ s[Len(s)] \in Whitespace
    THEN RStrip(SubSeq(s, 1, Len(s) - 1))
    ELSE s

\* str.strip()
Strip(s) == RStrip(LStrip(s))

\* ',' in s
HasComma(s) == \E i \in 1..Len(s) : s[i] = ","

\* s.split(','): the pieces between the commas, empty pieces kept.
RECURSIVE SplitFrom(_, _)
SplitFrom(s, cur) ==
    IF s = <<>> THEN <<cur>>
    ELSE IF Head(s) = "," THEN <<cur>> \o SplitFrom(Tail(s), <<>>)
    ELSE SplitFrom(Tail(s), Append(cur, Head(s)))

SplitComma(s) == SplitFrom(s, <<>>)

RECURSIVE DigitsValue(_)
DigitsValue(s) ==
    IF s = <<>> THEN 0
    ELSE 10 * DigitsValue(SubSeq(s, 1, Len(s) - 1)) + DigitVal(s[Len(s)])

RECURSIVE Pow10(_)
Pow10(k) == IF k = 0 THEN 1 ELSE 10 * Pow10(k - 1)

AllDigits(s) == \A i \in 1..Len(s) : s[i] \in Digits

ParseError == [ok |-> FALSE, val |-> NaN]

\* The unsigned decimal literals float() accepts over the alphabet of the
\* model: digits with at most one point and at least one digit.
ParseUnsigned(s) ==
    LET dots == {i \in 1..Len(s) : s[i] = "."}
    IN  IF dots = {}
        THEN IF s # <<>> /\ AllDigits(s)
             THEN [ok |-> TRUE, val |-> RatInt(DigitsValue(s))]
             ELSE ParseError
        ELSE IF Cardinality(dots) > 1 THEN ParseError
        ELSE LET p == CHOOSE i \in dots : TRUE
                 ip == SubSeq(s, 1, p - 1)
                 fp == SubSeq(s, p + 1, Len(s))
             IN  IF AllDigits(ip) /\ AllDigits(fp) /\ Len(ip) + Len(fp) > 0
                 THEN [ok |-> TRUE,
                       val |-> Rat(DigitsValue(ip) * Pow10(Len(fp)) + DigitsValue(fp),
                                   Pow10(Len(fp)))]
                 ELSE ParseError

\* float(s): surrounding whitespace is ignored, then an optional sign, then
\* the literal; anything else raises ValueError (ok = FALSE).
ParseFloat(s) ==
    LET b == Strip(s)
    IN  IF b = <<>> THEN ParseError
        ELSE IF Head(b) \in {"-", "+"}
        THEN LET u == ParseUnsigned(Tail(b))
             IN  IF u.ok /\ Head(b) = "-"
                 THEN [ok |-> TRUE, val |-> Rat(-u.val[1], u.val[2])]
                 ELSE u
        ELSE ParseUnsigned(b)

\* [float(f.strip()) for f in tokens]: the values, or ValueError at the
\* first token float() rejects.
ParseList(tokens) ==
    IF \E i \in 1..Len(tokens) : ~ParseFloat(Strip(tokens[i])).ok
    THEN [ok |-> FALSE, val |-> <<>>]
    ELSE [ok |-> TRUE,
          val |-> [i \in 1..Len(tokens) |-> ParseFloat(Strip(tokens[i])).val]]

\* ---------------------------------------------------------- synthesis
\* int(sample_rate * duration)
NumSamples(sr, d) == IntTrunc(RatMul(RatInt(sr), d))

\* amplitude * np.sin(2 * np.pi * frequency * t)
UnscaledSine(f, t, a) == WaveScale(SinOf(f, t), a)

\* play_frequency's buffer: the sine, then wave *= 10.
SynthSingle(f, d, sr, a) ==
    WaveScale(UnscaledSine(f, Linspace(d, NumSamples(sr, d)), a),
              RatInt(SingleToneScale))

\* for freq in frequencies: wave += np.sin(2 * np.pi * freq * t)
RECURSIVE MixFrom(_, _, _)
MixFrom(w, fs, t) ==
    IF fs = <<>> THEN w
    ELSE MixFrom(WaveAdd(w, SinOf(Head(fs), t)), Tail(fs), t)

\* Mutant: the sum is not divided by the number of frequencies.
SynthMulti_NoNormalize(fs, d, sr, a) ==
    LET t == Linspace(d, NumSamples(sr, d))
    IN  WaveScale(MixFrom(ZerosLike(t), fs, t), a)

\* play_multiple_frequencies's buffer: the sum, divided by the number of
\* frequencies, times the amplitude.
SynthMulti(fs, d, sr, a) ==
    LET t == Linspace(d, NumSamples(sr, d))
    IN  WaveScale(WaveDiv(MixFrom(ZerosLike(t), fs, t), Len(fs)), a)

\* ------------------------------------------------------ printed lines
\* print(f"Playing {frequency} Hz for {duration} seconds...")
LinePlaying(f, d) == <<"Playing ", f, " Hz for ", d, " seconds...">>

\* freq_str = ", ".join([f"{f} Hz" for f in frequencies]) is kept as the
\* list it is built from.
\* print(f"Playing {len(frequencies)} frequencies simultaneously: {freq_str}")
LinePlayingMulti(fs) == <<"Playing ", Len(fs), " frequencies simultaneously: ", fs>>

\* print(f"Duration: {duration} seconds")
LineDuration(d) == <<"Duration: ", d, " seconds">>

LineDone == <<"Done!">>

LineNoFrequencies == <<"Error: No frequencies provided">>

LineInvalidList(arg) == <<"Invalid frequency list: ", arg>>

LineFormat == <<"Format: freq1,freq2,freq3 (e.g., 440,554,659)">>

LineInvalidFrequency(arg) == <<"Invalid frequency: ", arg>>

LineInvalidDuration(arg) == <<"Invalid duration: ", arg>>

\* -------------------------------------------------------------- inputs
FreqChars == {"4", "5", ",", " ", "x"}

DurChars == {"2", "0", "-", ".", "x"}

SeqsUpTo(S, n) == UNION {[1..k -> S] : k \in 0..n}

\* sys.argv[1:]: no argument, the first one, or both.
ArgvSet ==
    {<<>>}
    \cup {<<a>> : a \in SeqsUpTo(FreqChars, MaxFreqArgLen)}
    \cup {<<a, b>> : a \in SeqsUpTo(FreqChars, MaxFreqArgLen),
                     b \in SeqsUpTo(DurChars, MaxDurArgLen)}

\* Arguments of a direct call of one of the play routines.
LibFreqs == {RatInt(n) : n \in 1..MaxFreq}

LibFreqLists == SeqsUpTo(LibFreqs, MaxFreqs)

LibDurations == {Rat(n, DurDen) : n \in -1..MaxDurNum}

LibRates == 1..MaxRate

LibAmplitudes == {RatInt(0), Rat(DefaultAmplitudeNum, DefaultAmplitudeDen), RatInt(1)}

\* --------------------------------------------------------------- state
VARIABLES
    mode,         \* "cli": the script is run; "lib": a routine is called directly
    argv,         \* sys.argv[1:]
    frequencies,  \* the frequency list (play_frequency: its one frequency)
    dur,          \* the duration
    sample_rate,  \* the routine's sample_rate parameter (0: not bound yet)
    amplitude,    \* the routine's amplitude parameter (NaN: not bound yet)
    fn,           \* the routine called, "none" before the call
    pc,           \* where the calling thread stands
    wave,         \* the sample buffer, NoWave before it is synthesized
    out,          \* standard output, a sequence of lines
    status,       \* the process's exit status, "running" until it exits
    events,       \* what the calling thread has done in the routine, in order
    viz,          \* the visualization thread
    figure,       \* the matplotlib figure
    audio,        \* the audio device
    vizSeen,      \* the buffer as the visualization thread plotted it
    audioSeen     \* the buffer as sd.play took it

vars == <<mode, argv, frequencies, dur, sample_rate, amplitude, fn, pc, wave,
          out, status, events, viz, figure, audio, vizSeen, audioSeen>>

NoFigure == [state |-> "none", zoom |-> 0]

InitCommon ==
    /\ wave = NoWave
    /\ out = <<>>
    /\ status = "running"
    /\ events = <<>>
    /\ viz = "unstarted"
    /\ figure = NoFigure
    /\ audio = "idle"
    /\ vizSeen = NoWave
    /\ audioSeen = NoWave

\* python play_frequency.py [argv]: the defaults of __main__.
InitCli ==
    /\ mode = "cli"
    /\ argv \in ArgvSet
    /\ frequencies = <<RatInt(DefaultFrequency)>>
    /\ dur = RatInt(DefaultDuration)
    /\ sample_rate = 0
    /\ amplitude = NaN
    /\ fn = "none"
    /\ pc = "main"

\* play_frequency(frequency, duration, sample_rate, amplitude)
InitLibSingle ==
    /\ mode = "lib"
    /\ argv = <<>>
    /\ \E f \in LibFreqs : frequencies = <<f>>
    /\ dur \in LibDurations
    /\ sample_rate \in LibRates
    /\ amplitude \in LibAmplitudes
    /\ fn = "play_frequency"
    /\ pc = "pf_synth"

\* play_multiple_frequencies(frequencies, duration, sample_rate, amplitude)
InitLibMulti ==
    /\ mode = "lib"
    /\ argv = <<>>
    /\ frequencies \in LibFreqLists
    /\ dur \in LibDurations
    /\ sample_rate \in LibRates
    /\ amplitude \in LibAmplitudes
    /\ fn = "play_multiple_frequencies"
    /\ pc = "pm_check"

Init == InitCommon /\ (InitCli \/ InitLibSingle \/ InitLibMulti)

\* ------------------------------------------------- the calling thread
RoutineVars == <<viz, figure, audio, vizSeen, audioSeen>>

\* sys.exit(1) after the diagnostic lines are printed.
ExitWith(lines) ==
    /\ out' = out \o lines
    /\ status' = "1"
    /\ pc' = "exited"

\* __main__: the first argument.
main_parse_frequencies ==
    /\ pc = "main"
    /\ IF Len(argv) > 0
       THEN LET freq_input == argv[1]
            IN  IF HasComma(freq_input)
                THEN LET r == ParseList(SplitComma(freq_input))
                     IN  IF r.ok
                         THEN /\ frequencies' = r.val
                              /\ pc' = "main_dur"
                              /\ UNCHANGED <<out, status>>
                         ELSE /\ ExitWith(<<LineInvalidList(freq_input), LineFormat>>)
                              /\ UNCHANGED frequencies
                ELSE LET r == ParseFloat(freq_input)
                     IN  IF r.ok
                         THEN /\ frequencies' = <<r.val>>
                              /\ pc' = "main_dur"
                              /\ UNCHANGED <<out, status>>
                         ELSE /\ ExitWith(<<LineInvalidFrequency(freq_input)>>)
                              /\ UNCHANGED frequencies
       ELSE /\ pc' = "main_dur"
            /\ UNCHANGED <<frequencies, out, status>>
    /\ UNCHANGED <<mode, argv, dur, sample_rate, amplitude, fn, wave, events>>
    /\ UNCHANGED RoutineVars

\* Mutant: a duration float() rejects is reported and the default is kept.
main_parse_duration_lenient ==
    /\ pc = "main_dur"
    /\ IF Len(argv) > 1
       THEN LET r == ParseFloat(argv[2])
            IN  IF r.ok
                THEN dur' = r.val /\ UNCHANGED out
                ELSE out' = Append(out, LineInvalidDuration(argv[2])) /\ UNCHANGED dur
       ELSE UNCHANGED <<dur, out>>
    /\ pc' = "main_call"
    /\ UNCHANGED <<mode, argv, frequencies, sample_rate, amplitude, fn, wave, events,
                   status>>
    /\ UNCHANGED RoutineVars

\* __main__: the second argument.
main_parse_duration ==
    /\ pc = "main_dur"
    /\ IF Len(argv) > 1
       THEN LET r == ParseFloat(argv[2])
            IN  IF r.ok
                THEN /\ dur' = r.val
                     /\ pc' = "main_call"
                     /\ UNCHANGED <<out, status>>
                ELSE /\ ExitWith(<<LineInvalidDuration(argv[2])>>)
                     /\ UNCHANGED dur
       ELSE /\ pc' = "main_call"
            /\ UNCHANGED <<dur, out, status>>
    /\ UNCHANGED <<mode, argv, frequencies, sample_rate, amplitude, fn, wave, events>>
    /\ UNCHANGED RoutineVars

\* Mutant: the single-tone routine is called whatever the list holds.
main_call_single_only ==
    /\ pc = "main_call"
    /\ fn' = "play_frequency"
    /\ pc' = "pf_synth"
    /\ sample_rate' = DefaultSampleRate
    /\ amplitude' = Rat(DefaultAmplitudeNum, DefaultAmplitudeDen)
    /\ UNCHANGED <<mode, argv, frequencies, dur, wave, out, status, events>>
    /\ UNCHANGED RoutineVars

\* __main__: the call, with the routines' default sample_rate and amplitude.
main_call ==
    /\ pc = "main_call"
    /\ IF Len(frequencies) = 1
       THEN fn' = "play_frequency" /\ pc' = "pf_synth"
       ELSE fn' = "play_multiple_frequencies" /\ pc' = "pm_check"
    /\ sample_rate' = DefaultSampleRate
    /\ amplitude' = Rat(DefaultAmplitudeNum, DefaultAmplitudeDen)
    /\ UNCHANGED <<mode, argv, frequencies, dur, wave, out, status, events>>
    /\ UNCHANGED RoutineVars

\* The time array and the buffer; np.linspace raises ValueError when the
\* number of samples is negative.
Synthesize(buffer, next) ==
    /\ IF NumSamples(sample_rate, dur) < 0
       THEN /\ pc' = "raised"
            /\ UNCHANGED <<wave, events>>
       ELSE /\ wave' = buffer
            /\ events' = Append(events, "synthesized")
            /\ pc' = next
    /\ UNCHANGED <<mode, argv, frequencies, dur, sample_rate, amplitude, fn, out, status>>
    /\ UNCHANGED RoutineVars

\* play_frequency: t, wave, wave *= 10.
play_frequency_synth ==
    /\ pc = "pf_synth"
    /\ Synthesize(SynthSingle(frequencies[1], dur, sample_rate, amplitude),
                  "pf_announce")

Announce(lines) ==
    /\ out' = out \o lines
    /\ pc' = "viz_start"
    /\ UNCHANGED <<mode, argv, frequencies, dur, sample_rate, amplitude, fn, wave,
                   status, events>>
    /\ UNCHANGED RoutineVars

play_frequency_announce ==
    /\ pc = "pf_announce"
    /\ Announce(<<LinePlaying(frequencies[1], dur)>>)

\* Mutant: the diagnostic is printed and the routine goes on.
play_multiple_check_fallthrough ==
    /\ pc = "pm_check"
    /\ out' = (IF frequencies = <<>> THEN Append(out, LineNoFrequencies) ELSE out)
    /\ pc' = "pm_synth"
    /\ UNCHANGED <<mode, argv, frequencies, dur, sample_rate, amplitude, fn, wave,
                   status, events>>
    /\ UNCHANGED RoutineVars

\* play_multiple_frequencies: the empty list is refused.
play_multiple_check ==
    /\ pc = "pm_check"
    /\ IF frequencies = <<>>
       THEN /\ out' = Append(out, LineNoFrequencies)
            /\ pc' = "returned"
       ELSE /\ pc' = "pm_synth"
            /\ UNCHANGED out
    /\ UNCHANGED <<mode, argv, frequencies, dur, sample_rate, amplitude, fn, wave,
                   status, events>>
    /\ UNCHANGED RoutineVars

\* play_multiple_frequencies: t, the mix, the normalisation, the amplitude.
play_multiple_synth ==
    /\ pc = "pm_synth"
    /\ Synthesize(SynthMulti(frequencies, dur, sample_rate, amplitude),
                  "pm_announce")

\* Mutant: the duration line is not printed.
play_multiple_announce_oneline ==
    /\ pc = "pm_announce"
    /\ Announce(<<LinePlayingMulti(frequencies)>>)

play_multiple_announce ==
    /\ pc = "pm_announce"
    /\ Announce(<<LinePlayingMulti(frequencies), LineDuration(dur)>>)

\* viz_thread = threading.Thread(...); viz_thread.start()
viz_thread_start ==
    /\ pc = "viz_start"
    /\ viz' = "started"
    /\ events' = Append(events, "viz_started")
    /\ pc' = "sd_play"
    /\ UNCHANGED <<mode, argv, frequencies, dur, sample_rate, amplitude, fn, wave,
                   out, status, figure, audio, vizSeen, audioSeen>>

\* Mutant: the in-place wave *= 10 comes after the thread was started.
sd_play_rescales ==
    /\ pc = "sd_play"
    /\ wave' = WaveScale(wave, RatInt(SingleToneScale))
    /\ audio' = "playing"
    /\ audioSeen' = wave'
    /\ events' = Append(events, "play_started")
    /\ pc' = "sd_wait"
    /\ UNCHANGED <<mode, argv, frequencies, dur, sample_rate, amplitude, fn,
                   out, status, viz, figure, vizSeen>>

\* sd.play(wave, sample_rate): the device takes the buffer and starts.
sd_play ==
    /\ pc = "sd_play"
    /\ audio' = "playing"
    /\ audioSeen' = wave
    /\ events' = Append(events, "play_started")
    /\ pc' = "sd_wait"
    /\ UNCHANGED <<mode, argv, frequencies, dur, sample_rate, amplitude, fn, wave,
                   out, status, viz, figure, vizSeen>>

\* sd.wait(): returns once the device has finished.
sd_wait ==
    /\ pc = "sd_wait"
    /\ audio = "finished"
    /\ events' = Append(events, "audio_waited")
    /\ pc' = "join"
    /\ UNCHANGED <<mode, argv, frequencies, dur, sample_rate, amplitude, fn, wave,
                   out, status>>
    /\ UNCHANGED RoutineVars

\* Mutant: the join does not wait for the thread.
viz_thread_join_nowait ==
    /\ pc = "join"
    /\ events' = Append(events, "viz_joined")
    /\ pc' = "done"
    /\ UNCHANGED <<mode, argv, frequencies, dur, sample_rate, amplitude, fn, wave,
                   out, status>>
    /\ UNCHANGED <<viz, figure, audio, vizSeen, audioSeen>>

\* viz_thread.join(): returns once the thread has ended.
viz_thread_join ==
    /\ pc = "join"
    /\ viz = "ended"
    /\ events' = Append(events, "viz_joined")
    /\ pc' = "done"
    /\ UNCHANGED <<mode, argv, frequencies, dur, sample_rate, amplitude, fn, wave,
                   out, status>>
    /\ UNCHANGED RoutineVars

\* print("Done!") and the return.
print_done ==
    /\ pc = "done"
    /\ out' = Append(out, LineDone)
    /\ events' = Append(events, "returned")
    /\ pc' = "returned"
    /\ UNCHANGED <<mode, argv, frequencies, dur, sample_rate, amplitude, fn, wave,
                   status>>
    /\ UNCHANGED RoutineVars

\* The script ends: status 0 after the routine returned, status 1 (and a
\* traceback) after an exception nobody caught.
main_exit ==
    /\ mode = "cli"
    /\ pc \in {"returned", "raised"}
    /\ status' = (IF pc = "returned" THEN "0" ELSE "1")
    /\ pc' = "exited"
    /\ UNCHANGED <<mode, argv, frequencies, dur, sample_rate, amplitude, fn, wave,
                   out, events>>
    /\ UNCHANGED RoutineVars

\* -------------------------------------------- the visualization thread
MainVars == <<mode, argv, frequencies, dur, sample_rate, amplitude, fn, pc, wave,
              out, status, events>>

\* zoom_samples = int(sample_rate * min(0.05, duration)); wave[:zoom_samples]
ZoomSamples(w, sr, d) ==
    SliceLen(w, IntTrunc(RatMul(RatInt(sr), RatMin(Rat(1, ZoomInv), d))))

\* visualize_waveform up to plt.show(block=False): the thread reads the
\* buffer and draws both views.
visualize_plot ==
    /\ viz = "started"
    /\ vizSeen' = wave
    /\ figure' = [state |-> "open", zoom |-> ZoomSamples(wave, sample_rate, dur)]
    /\ viz' = "shown"
    /\ UNCHANGED <<audio, audioSeen>>
    /\ UNCHANGED MainVars

\* plt.pause(duration) returns: the hold has elapsed.
visualize_pause ==
    /\ viz = "shown"
    /\ viz' = "held"
    /\ UNCHANGED <<figure, audio, vizSeen, audioSeen>>
    /\ UNCHANGED MainVars

\* Mutant: the figure is closed only once the caller has got past its join.
visualize_close_on_signal ==
    /\ viz = "held"
    /\ pc \in {"done", "returned", "exited"}
    /\ figure' = [figure EXCEPT !.state = "closed"]
    /\ viz' = "ended"
    /\ UNCHANGED <<audio, vizSeen, audioSeen>>
    /\ UNCHANGED <<mode, argv, frequencies, dur, sample_rate, amplitude, fn, pc, wave,
                   out, status, events>>

\* plt.close(), and the thread ends.
visualize_close ==
    /\ viz = "held"
    /\ figure' = [figure EXCEPT !.state = "closed"]
    /\ viz' = "ended"
    /\ UNCHANGED <<audio, vizSeen, audioSeen>>
    /\ UNCHANGED MainVars

\* ---------------------------------------------------- the audio device
\* The device has emitted every sample of the buffer.
audio_finish ==
    /\ audio = "playing"
    /\ audio' = "finished"
    /\ UNCHANGED <<viz, figure, vizSeen, audioSeen>>
    /\ UNCHANGED MainVars

\* ------------------------------------------------------ specification
MainStep ==
    \/ main_parse_frequencies
    \/ main_parse_duration
    \/ main_call
    \/ play_frequency_synth
    \/ play_frequency_announce
    \/ play_multiple_check
    \/ play_multiple_synth
    \/ play_multiple_announce
    \/ viz_thread_start
    \/ sd_play
    \/ sd_wait
    \/ viz_thread_join
    \/ print_done
    \/ main_exit

VizStep == visualize_plot \/ visualize_pause \/ visualize_close

Next == MainStep \/ VizStep \/ audio_finish

Spec == Init /\ [][Next]_vars

\* The steps that end an invocation: the two waits and the last line.
Finish == sd_wait \/ viz_thread_join \/ print_done

\* The interpreter runs every thread that can take a step: the caller is
\* not held once a wait can return, nor the visualization thread once its
\* hold is over.  When the device finishes and when the hold elapses is up
\* to the environment, and no fairness is assumed of them.
FairSpec == Spec /\ WF_vars(Finish) /\ WF_vars(visualize_close)

\* ============================================================= claims
Range(q) == {q[i] : i \in 1..Len(q)}

IsPrefix(p, q) == Len(p) <= Len(q) /\ \A i \in 1..Len(p) : p[i] = q[i]

\* The order of a play invocation as the calling thread goes through it.
CallOrder ==
    <<"synthesized", "viz_started", "play_started", "audio_waited", "viz_joined",
      "returned">>

Returned == "returned" \in Range(events)

\* C1: in every play invocation the caller synthesizes the buffer, starts
\* the visualization thread, starts playback, waits for the audio, waits
\* for the thread and only then returns: the thread and the device run
\* only after the steps that start them, the audio wait ends only with the
\* device finished, the join only with the thread ended, and the call has
\* never returned while either is still running.
C1_CallOrder ==
    /\ IsPrefix(events, CallOrder)
    /\ (viz # "unstarted" => IsPrefix(<<"synthesized", "viz_started">>, events))
    /\ (audio # "idle" =>
            IsPrefix(<<"synthesized", "viz_started", "play_started">>, events))
    /\ ("audio_waited" \in Range(events) => audio = "finished")
    /\ ("viz_joined" \in Range(events) => viz = "ended")
    /\ (Returned => audio = "finished" /\ viz = "ended")
    /\ (pc \in {"returned", "exited"} /\ status # "1" /\ frequencies # <<>>
            => events = CallOrder)

C1_Witness ==
    /\ pc = "returned"
    /\ events = CallOrder
    /\ audio = "finished"
    /\ viz = "ended"

\* The first argument as the claims read it: the pieces between its commas.
CommaAt(s) == {i \in 1..Len(s) : s[i] = ","}

TokenCount(s) == Cardinality(CommaAt(s)) + 1

\* The position of the k-th comma; 0 before the first, Len + 1 after the last.
CommaPos(s, k) ==
    IF k = 0 THEN 0
    ELSE IF k > Cardinality(CommaAt(s)) THEN Len(s) + 1
    ELSE CHOOSE p \in CommaAt(s) : Cardinality({q \in CommaAt(s) : q < p}) = k - 1

Token(s, k) == SubSeq(s, CommaPos(s, k - 1) + 1, CommaPos(s, k) - 1)

BadFirstArg ==
    /\ Len(argv) >= 1
    /\ \E k \in 1..TokenCount(argv[1]) : ~ParseFloat(Token(argv[1], k)).ok

BadSecondArg == Len(argv) >= 2 /\ ~ParseFloat(argv[2]).ok

DiagnosticHeads ==
    {"Invalid frequency list: ", "Invalid frequency: ", "Invalid duration: "}

\* C2: a command line whose first argument (or a token of its list) or
\* second argument is not a float never reaches a routine: no buffer, no
\* thread, no playback; the run ends with status 1 and a first output line
\* that names the offending argument.
C2_MalformedInput ==
    (mode = "cli" /\ (BadFirstArg \/ BadSecondArg)) =>
        /\ pc \in {"main", "main_dur", "exited"}
        /\ (pc = "main_dur" => ~BadFirstArg)
        /\ fn = "none"
        /\ wave = NoWave
        /\ events = <<>>
        /\ viz = "unstarted"
        /\ audio = "idle"
        /\ audioSeen = NoWave
        /\ (pc = "exited" =>
                /\ status = "1"
                /\ Len(out) >= 1
                /\ Len(out[1]) = 2
                /\ out[1][1] \in DiagnosticHeads
                /\ out[1][2] = (IF BadFirstArg THEN argv[1] ELSE argv[2]))
        /\ (pc # "exited" => status = "running" /\ out = <<>>)

C2_Witness ==
    /\ mode = "cli"
    /\ Len(argv) = 2
    /\ ~BadFirstArg
    /\ BadSecondArg
    /\ pc = "exited"
    /\ status = "1"

\* C3: play_multiple_frequencies called with an empty list prints its
\* diagnostic and returns: no buffer, no thread, no playback, no "Done!".
C3_EmptyList ==
    (fn = "play_multiple_frequencies" /\ frequencies = <<>>) =>
        /\ pc \in {"pm_check", "returned"}
        /\ wave = NoWave
        /\ events = <<>>
        /\ viz = "unstarted"
        /\ audio = "idle"
        /\ out = (IF pc = "returned" THEN <<LineNoFrequencies>> ELSE <<>>)

C3_Witness ==
    /\ fn = "play_multiple_frequencies"
    /\ frequencies = <<>>
    /\ pc = "returned"
    /\ out = <<LineNoFrequencies>>

\* What C4 expects of a command line.
ExpectedFn ==
    IF Len(argv) >= 1 /\ CommaAt(argv[1]) # {}
    THEN "play_multiple_frequencies"
    ELSE "play_frequency"

ExpectedFrequencies ==
    IF Len(argv) = 0 THEN <<RatInt(DefaultFrequency)>>
    ELSE [k \in 1..TokenCount(argv[1]) |-> ParseFloat(Token(argv[1], k)).val]

ExpectedDuration ==
    IF Len(argv) >= 2 THEN ParseFloat(argv[2]).val ELSE RatInt(DefaultDuration)

\* C4: a command line that parses calls the single-tone routine with 440
\* when there is no first argument and with the parsed frequency when the
\* argument has no comma, the multi-tone routine with the parsed
\* frequencies in input order when it has one; the duration is the parsed
\* second argument, or 2.0.
C4_Dispatch ==
    (mode = "cli" /\ ~BadFirstArg /\ ~BadSecondArg) =>
        /\ (pc = "exited" => fn # "none")
        /\ (fn # "none" =>
                /\ fn = ExpectedFn
                /\ frequencies = ExpectedFrequencies
                /\ dur = ExpectedDuration)

C4_Witness ==
    /\ mode = "cli"
    /\ Len(argv) = 2
    /\ fn = "play_multiple_frequencies"
    /\ Len(frequencies) = 2
    /\ frequencies[1] # frequencies[2]
    /\ pc = "returned"

\* A line of the form "Playing <freq(s)> for <duration> seconds...".
IsAnnouncement(line) ==
    /\ Len(line) = 5
    /\ line[1] = "Playing "
    /\ line[3] \in {" for ", " Hz for "}
    /\ line[5] = " seconds..."

\* When the lines of the transcript are printed: nothing before the
\* announcement, the announcement before the thread and the playback
\* start, "Done!" after both have finished.
TranscriptTiming(announcement) ==
    /\ (viz # "unstarted" \/ audio # "idle" => Len(out) >= announcement)
    /\ (~Returned /\ wave # NoWave => Len(out) <= announcement)
    /\ (Len(out) > announcement => audio = "finished" /\ viz = "ended")

\* C5 as stated: on both paths the transcript of an invocation that plays
\* is one announcement line "Playing <freq(s)> for <duration> seconds..."
\* printed before playback starts, and "Done!" printed after playback and
\* the visualization have finished.
C5_Original ==
    (wave # NoWave) =>
        /\ TranscriptTiming(1)
        /\ (Len(out) >= 1 => IsAnnouncement(out[1]))
        /\ (Returned => Len(out) = 2 /\ out[2] = LineDone)

\* C5 as amended: the single-tone transcript is the line "Playing <f> Hz
\* for <d> seconds..." and then "Done!"; the multi-tone transcript is the
\* two lines "Playing <n> frequencies simultaneously: <f1> Hz, ..." and
\* "Duration: <d> seconds" and then "Done!".  On both paths the
\* announcement is printed before the thread and the playback start and
\* "Done!" after both have finished.
C5_Transcript ==
    /\ (fn = "play_frequency" /\ wave # NoWave) =>
            /\ TranscriptTiming(1)
            /\ (Len(out) >= 1 =>
                    IsAnnouncement(out[1]) /\ out[1] = LinePlaying(frequencies[1], dur))
            /\ (Returned => Len(out) = 2 /\ out[2] = LineDone)
    /\ (fn = "play_multiple_frequencies" /\ wave # NoWave) =>
            /\ TranscriptTiming(2)
            /\ Len(out) # 1
            /\ (Len(out) >= 2 =>
                    /\ Len(out[1]) = 4
                    /\ out[1] = LinePlayingMulti(frequencies)
                    /\ Len(out[2]) = 3
                    /\ out[2] = LineDuration(dur))
            /\ (Returned => Len(out) = 3 /\ out[3] = LineDone)

C5_Witness ==
    /\ fn = "play_multiple_frequencies"
    /\ Returned
    /\ out = <<LinePlayingMulti(frequencies), LineDuration(dur), LineDone>>

\* C6: a request built from the command line that gets a buffer has a
\* non-empty frequency list, a positive duration and a positive sample
\* rate; a zero or negative duration never reaches synthesis.
C6_RequestInvariant ==
    (mode = "cli") =>
        /\ (wave # NoWave =>
                /\ frequencies # <<>>
                /\ RatLess(RatInt(0), dur)
                /\ sample_rate > 0)
        /\ (~RatLess(RatInt(0), dur) => pc \notin {"pf_synth", "pm_synth", "raised"})

\* floor(q) of a rational with a positive denominator.
RatFloor(q) == q[1] \div q[2]

\* C7: for a positive sample rate r and duration d the buffer has exactly
\* floor(r * d) samples and sample i stands at time i / r, inside [0, d).
C7_BufferTimes ==
    (wave # NoWave /\ sample_rate > 0 /\ RatLess(RatInt(0), dur)) =>
        /\ wave.num = RatFloor(RatMul(RatInt(sample_rate), dur))
        /\ \A i \in 0..MaxProbe :
               i < wave.num =>
                   /\ TimeAt(wave, i) = Rat(i, sample_rate)
                   /\ RatLess(TimeAt(wave, i), dur)

\* Sample i of a buffer: the time it stands at and the sines summed there.
SampleAt(w, i) == [t |-> TimeAt(w, i), coef |-> w.coef]

SamplesEqual(w, v) ==
    /\ w.num = v.num
    /\ \A i \in 0..MaxProbe : i < w.num => SampleAt(w, i) = SampleAt(v, i)

\* C8: the multi-tone buffer for [f, f] is, sample for sample, the single
\* sine a * sin(2 pi f t_i), and the single-tone buffer for f is 10 times it.
C8_EqualPair ==
    /\ (/\ fn = "play_multiple_frequencies"
        /\ wave # NoWave
        /\ Len(frequencies) = 2
        /\ frequencies[1] = frequencies[2]) =>
            LET t == Linspace(dur, NumSamples(sample_rate, dur))
                sine == UnscaledSine(frequencies[1], t, amplitude)
            IN  /\ SamplesEqual(wave, sine)
                /\ wave = sine
                /\ WaveScale(wave, RatInt(SingleToneScale))
                       = SynthSingle(frequencies[1], dur, sample_rate, amplitude)
    /\ (fn = "play_frequency" /\ wave # NoWave) =>
            LET pair == SynthMulti(<<frequencies[1], frequencies[1]>>, dur,
                                   sample_rate, amplitude)
            IN  SamplesEqual(wave, WaveScale(pair, RatInt(SingleToneScale)))

C8_Witness ==
    /\ fn = "play_multiple_frequencies"
    /\ Len(frequencies) = 2
    /\ frequencies[1] = frequencies[2]
    /\ wave.num > 1
    /\ amplitude = Rat(DefaultAmplitudeNum, DefaultAmplitudeDen)
    /\ wave.coef[frequencies[1]] = amplitude

\* C9: the buffer is written only before the visualization thread is
\* started; from then on nothing changes it, and what the thread plots and
\* what the device takes is the buffer as synthesized (the single-tone
\* buffer with its x10).
C9_BufferFrozen ==
    /\ [][viz # "unstarted" => wave' = wave]_vars
    /\ [](viz # "unstarted" => wave # NoWave)
    /\ [](vizSeen \in {NoWave, wave})
    /\ [](audioSeen \in {NoWave, wave})
    /\ [](viz \notin {"unstarted", "started"} => vizSeen = wave)
    /\ [](audio # "idle" => audioSeen = wave)
    /\ [](fn = "play_frequency" /\ viz # "unstarted" =>
              wave = SynthSingle(frequencies[1], dur, sample_rate, amplitude))

C9_Witness ==
    /\ fn = "play_frequency"
    /\ Returned
    /\ wave.num > 0
    /\ vizSeen = wave
    /\ audioSeen = wave
    /\ wave.coef[frequencies[1]] = RatMul(amplitude, RatInt(SingleToneScale))

\* C10: if the device finishes the buffer and the hold elapses, the
\* invocation ends: the thread closes its figure and ends by itself
\* (neither its hold nor its close waits for the caller), the caller
\* prints "Done!" and returns.  Conversely the call has returned only with the device
\* finished and the thread ended: there is no other way out of the waits.
C10_Termination ==
    /\ (<>(audio = "finished") /\ <>(viz = "held"))
           => <>(Returned /\ out # <<>> /\ out[Len(out)] = LineDone
                    /\ figure.state = "closed" /\ viz = "ended")
    /\ [](viz = "shown" => ENABLED visualize_pause)
    /\ [](viz = "held" => ENABLED visualize_close)
    /\ [](viz = "ended" => figure.state = "closed")
    /\ [](pc \in {"sd_wait", "join"} => ~Returned)
    /\ [](pc = "sd_wait" /\ audio # "finished" => ~ENABLED MainStep)
    /\ [](pc = "join" /\ viz # "ended" => ~ENABLED MainStep)

C10_Witness ==
    /\ Returned
    /\ out[Len(out)] = LineDone
    /\ figure.state = "closed"
    /\ viz = "ended"
    /\ audio = "finished"

=============================================================================
